---- MODULE Spec2Model ----
(***************************************************************************)
(* botcorebot: per-user memory service (src/src/lib/memory.ts), its HTTP   *)
(* routes (src/src/app/api/v1/memory) and the auth/quota layer             *)
(* (src/src/lib/auth.ts, src/src/lib/supabase.ts).                         *)
(*                                                                         *)
(* REAL columns (activation, importance) are kept in micro-units:          *)
(* 1.0 is One = 1000000.  Timestamps are seconds on the variable clock.    *)
(* A JavaScript value is a record tagged by its typeof in field t; a       *)
(* string carries its text s and its character count length (two strings   *)
(* with the same words and different lengths differ in padding).  The      *)
(* metadata column is not modelled: no operation reads it back into a      *)
(* decision.                                                               *)
(*                                                                         *)
(* Spec      : the operations of MemoryService, one call at a time.        *)
(* SpecSteps : the same operations statement by statement, two processes   *)
(*             on one user's database file.                                *)
(* SpecApi   : HTTP requests through withAuth, the route handlers and the  *)
(*             service.                                                    *)
(* SpecRace  : withAuth await by await, two requests in flight.            *)
(* SpecDecay : as Spec, from stores that hold a record at the forgetting   *)
(*             threshold.                                                  *)
(* SpecHandles : getDb and the try/finally of the methods, with statements *)
(*             that can throw; handles counts the open connections.        *)
(* SpecLive  : recall and consolidate from the stores of SpecDecay, with   *)
(*             consolidate invoked again and again (fairness).             *)
(* SpecRehearse : a caller that runs recall before every consolidate.      *)
(* SpecQuota : withAuth on the recall and stats routes, the usage insert   *)
(*             succeeding or failing.                                      *)
(* SpecAgent : one AgentLoop.run (src/runtime/src/agent-loop.ts), await by *)
(*             await, every await settling (fairness).                     *)
(***************************************************************************)
EXTENDS Integers, Sequences, FiniteSets, Bags, TLC

(* ------------------------------ bounds -------------------------------- *)
MaxIds == 1          \* identifiers crypto.randomUUID() can still hand out
MaxPasses == 2       \* consolidate() calls explored after Init
MaxRecalls == 2      \* recall() calls explored after Init
MaxTime == 61        \* last second the clock reaches
MaxRequests == 2     \* HTTP requests explored after Init
SeedPasses == 88     \* consolidate() passes an Init record has been through
UsageGap == 0        \* requests a busy caller of Init has left in its window
MaxConfigured == 2   \* largest maxToolIterations an AgentLoop is configured with
MaxToolCalls == 2    \* tool calls in one LLM response

(* ------------------------- program constants -------------------------- *)
One == 1000000
BoostPct == 110
DecayPct == 95
ForgetDiv == 100
DefaultImportance == 500000
MaxContentLength == 10000
Window == 60
RateLimitFree == 10
RateLimitPro == 100
RateLimitEnterprise == 1000
DefaultLimit == 10
MaxLimit == 100
DefaultToolIterations == 5

NULL == -1
Users == {"u1", "u2", "test-user"}
ServiceCallers == {"u1"}
Ids == 1 .. MaxIds
\* the identifier handed out for the record the store holds at Init
SeedId == MaxIds + 1
MemoryTypes == {"factual", "relational", "procedural", "episodic", "semantic"}

Min(a, b) == IF a < b THEN a ELSE b
Max(a, b) == IF a > b THEN a ELSE b
Range(s) == {s[i] : i \in DOMAIN s}

(* -------------------------- JavaScript values ------------------------ *)
Undef == [t |-> "undefined"]
JNull == [t |-> "object"]
JNum(n) == [t |-> "number", n |-> n]
JStr(s, n) == [t |-> "string", s |-> s, length |-> n]

\* ToBoolean: undefined, null, "" and 0 are falsy
Truthy(v) ==
  CASE v.t = "undefined" -> FALSE
    [] v.t = "object" -> FALSE
    [] v.t = "number" -> v.n # 0
    [] v.t = "string" -> v.length > 0

\* the words of a text, as the tokenizer of the index and LIKE see them
Words(s) ==
  CASE s = "python" -> <<"python">>
    [] s = "user" -> <<"user">>
    [] s = "user python" -> <<"user", "python">>
    [] OTHER -> <<>>

VARIABLES db, fts, ftsSync, issued, clock, passes, recalls, ret,
          usage_log, requests, resp, tx, admitted, handles

memvars == <<db, fts, issued, passes, recalls>>
apivars == <<usage_log, requests, resp, admitted, handles>>
vars == <<db, fts, ftsSync, issued, clock, passes, recalls, ret, usage_log, requests, resp, tx,
          admitted, handles>>

(* ----------------------- activation arithmetic ------------------------ *)
ForgetThreshold == One \div ForgetDiv

\* the boost without its clamp
BoostUnclamped(a) == (a * BoostPct) \div 100

\* a boost of 5 percent, which one decay more than undoes
BoostByFive(a) == Min((a * (BoostPct - 5)) \div 100, One)

Boost(a) == Min((a * BoostPct) \div 100, One)

Decay(a) == (a * DecayPct) \div 100

(* ------------------------------ search -------------------------------- *)
\* memories_fts MATCH ?  : every word of the query occurs in the content
Match(query, content) ==
  \A i \in DOMAIN Words(query.s) : Words(query.s)[i] \in Range(Words(content.s))

\* content LIKE %query%  : the query is a contiguous part of the content
Like(query, content) ==
  \E k \in 0 .. Len(Words(content.s)) :
    /\ k + Len(Words(query.s)) <= Len(Words(content.s))
    /\ \A i \in DOMAIN Words(query.s) : Words(content.s)[k + i] = Words(query.s)[i]

TypeFilter(types, row) ==
  (types.kind = "array" /\ types.list # {}) => row.type \in types.list

Matching(store, idx, query, types) ==
  IF Cardinality(idx) > 0
    THEN {r \in store : r.id \in idx /\ Match(query, r.content) /\ TypeFilter(types, r)}
    ELSE {r \in store : Like(query, r.content) /\ TypeFilter(types, r)}

\* the query without its LIMIT
RecallRowsUnlimited(store, idx, query, limit, types) ==
  LET M == Matching(store, idx, query, types)
      n == Cardinality(M)
  IN {s \in [1 .. n -> M] :
        \A i, j \in 1 .. n : i < j => (s[i] # s[j] /\ s[i].activation >= s[j].activation)}

\* ORDER BY activation DESC LIMIT ? : every ordering of ties is possible
RecallRows(store, idx, query, limit, types) ==
  LET M == Matching(store, idx, query, types)
      n == Min(limit, Cardinality(M))
  IN {s \in [1 .. n -> M] :
        /\ \A i, j \in 1 .. n : i < j => (s[i] # s[j] /\ s[i].activation >= s[j].activation)
        /\ \A q \in M \ Range(s) : \A i \in 1 .. n : s[i].activation >= q.activation}

(* --------------------------- MemoryService ---------------------------- *)
\* a generator that can repeat an identifier
RandomUUIDRepeating(used) == Ids \cup used

RandomUUID(used) == Ids \ used

NewRow(id, content, type, importance, now) ==
  [id |-> id, content |-> content,
   type |-> IF type.t = "undefined" THEN "factual" ELSE type.s,
   importance |-> IF importance.t = "undefined" THEN DefaultImportance ELSE importance.n,
   activation |-> One, created_at |-> now, last_accessed |-> NULL]

InsertRow(store, row) == store \cup {row}

\* the update with activation * 1.1 and no MIN
TouchRowsUnclamped(store, ids, now) ==
  {IF r.id \in ids
     THEN [r EXCEPT !.last_accessed = now, !.activation = (r.activation * BoostPct) \div 100]
     ELSE r : r \in store}

\* the update without its WHERE id = ?
TouchRowsAll(store, ids, now) ==
  {[r EXCEPT !.last_accessed = now, !.activation = Boost(r.activation)] : r \in store}

TouchRows(store, ids, now) ==
  {IF r.id \in ids
     THEN [r EXCEPT !.last_accessed = now, !.activation = Boost(r.activation)]
     ELSE r : r \in store}

\* a decay that scales importance along with activation
DecayRowsAll(store) ==
  {IF r.activation > ForgetThreshold
     THEN [r EXCEPT !.activation = Decay(r.activation),
                    !.importance = (r.importance * DecayPct) \div 100]
     ELSE r : r \in store}

\* the decay UPDATE with >= in its WHERE clause
DecayRowsInclusive(store) ==
  {IF r.activation >= ForgetThreshold
     THEN [r EXCEPT !.activation = Decay(r.activation)]
     ELSE r : r \in store}

DecayRows(store) ==
  {IF r.activation > ForgetThreshold
     THEN [r EXCEPT !.activation = Decay(r.activation)]
     ELSE r : r \in store}

\* the DELETE with the threshold 1.0
ForgottenRowsBelowOne(store) == {r \in store : r.activation < One}

ForgottenRows(store) == {r \in store : r.activation < ForgetThreshold}

\* the DELETE run before the decay UPDATE
ConsolidateStoreDeleteFirst(store) == DecayRows(store \ ForgottenRows(store))

\* the decay UPDATE without the DELETE
ConsolidateStoreNoDelete(store) == DecayRows(store)

ConsolidateStore(store) == DecayRows(store) \ ForgottenRows(DecayRows(store))

\* forgotten counted on the rows as they were before the decay
ConsolidateStatsBeforeDecay(store) ==
  [memories_before |-> Cardinality(store),
   memories_after |-> Cardinality(DecayRows(store) \ ForgottenRows(DecayRows(store))),
   merged |-> 0, forgotten |-> Cardinality(ForgottenRows(store))]

ConsolidateStats(store) ==
  LET beforeCount == Cardinality(store)
      decayed == DecayRows(store)
      forgotten == Cardinality(ForgottenRows(decayed))
      afterCount == Cardinality(decayed \ ForgottenRows(decayed))
  IN [memories_before |-> beforeCount, memories_after |-> afterCount,
      merged |-> 0, forgotten |-> forgotten]

RECURSIVE SumImportance(_)
SumImportance(store) ==
  IF store = {} THEN 0
  ELSE LET r == CHOOSE x \in store : TRUE
       IN r.importance + SumImportance(store \ {r})

Stats(store) ==
  [total_memories |-> Cardinality(store),
   by_type |-> [t \in MemoryTypes \cup {r.type : r \in store} |->
                  Cardinality({r \in store : r.type = t})],
   oldest_memory |-> IF store = {} THEN NULL
                     ELSE CHOOSE t \in {r.created_at : r \in store} :
                            \A r \in store : t <= r.created_at,
   newest_memory |-> IF store = {} THEN NULL
                     ELSE CHOOSE t \in {r.created_at : r \in store} :
                            \A r \in store : t >= r.created_at,
   avg_importance |-> IF store = {} THEN 0
                      ELSE SumImportance(store) \div Cardinality(store)]

(* ------------------------- inputs of the model ------------------------ *)
\* arguments of store(): content, type, importance
StoreArgs ==
  {[content |-> JStr("python", 6), type |-> Undef, importance |-> Undef],
   [content |-> JStr("user python", MaxContentLength), type |-> JStr("episodic", 8),
    importance |-> JNum(800000)]}
QuerySample == {JStr("python", 6), JStr("user", 4)}
LimitSample == {1, 100}
NoTypes == [kind |-> "undefined", list |-> {}]
TypesSample == {NoTypes, [kind |-> "array", list |-> {"episodic", "relational"}]}

NoRet == [op |-> "none"]

\* the activation of a record after one more consolidate() pass without a
\* recall in between; NULL once the pass has deleted it
PassOnce(a) ==
  IF a = NULL THEN NULL
  ELSE LET d == IF a > ForgetThreshold THEN Decay(a) ELSE a
       IN IF d < ForgetThreshold THEN NULL ELSE d

\* function application evaluates its argument first, so the passes of the
\* first half are done before those of the second half start
AfterPassesOf[a \in Int, k \in Nat] ==
  IF k = 0 THEN a
  ELSE IF k = 1 THEN PassOnce(a)
  ELSE AfterPassesOf[AfterPassesOf[a, k \div 2], k - (k \div 2)]

AfterPasses(a, k) == AfterPassesOf[a, k]

\* a store of u1 that holds one record written at second 0 which has since
\* been through SeedPasses consolidate() passes
SeedStore ==
  LET a == AfterPasses(One, SeedPasses)
      row == NewRow(SeedId, JStr("user python", 11), JStr("relational", 10), JNum(800000), 0)
  IN IF a = NULL THEN {} ELSE {[row EXCEPT !.activation = a]}

NoResp == [route |-> "none"]

\* processes that hold a connection to the same database file
Procs == {"p1", "p2"}
Idle == [op |-> "idle"]

InitMemory(syncs, seeds) ==
  /\ ftsSync \in syncs
  /\ \E seeded \in seeds :
       /\ db = [u \in Users |-> IF seeded /\ u = "u1" THEN SeedStore ELSE {}]
       /\ fts = [u \in Users |-> IF seeded /\ ftsSync /\ u = "u1"
                                 THEN {r.id : r \in SeedStore} ELSE {}]
       /\ issued = IF seeded THEN {SeedId} ELSE {}
  /\ clock = 0
  /\ passes = 0
  /\ recalls = 0
  /\ ret = NoRet
  /\ tx = [p \in Procs |-> Idle]

Init ==
  /\ InitMemory(BOOLEAN, BOOLEAN)
  /\ usage_log = EmptyBag
  /\ admitted = EmptyBag
  /\ handles = 0
  /\ requests = 0
  /\ resp = NoResp

(* ------------------------- service operations ------------------------- *)
\* MemoryService.store: the index entry is written by the trigger or by the
\* manual insert; in a database where neither works (ftsSync = FALSE) the
\* failure is swallowed and the index stays empty
(* ------------------------- one file per user -------------------------- *)
BasePath == "/tmp/botcorebot-memory"

\* the user identifier left out of the path
GetDbPathShared(userId) == <<BasePath, "u1", "engram.db">>

\* path.join(basePath, userId, 'engram.db'), as its segments
GetDbPath(userId) == <<BasePath, userId, "engram.db">>

\* path.dirname(filePath), the directory ensureDir creates; db and fts are
\* keyed by its name
Dirname(filePath) == filePath[Len(filePath) - 1]

\* the database file a MemoryService of the user opens
GetDb(userId) == Dirname(GetDbPath(userId))

Store(u, content, type, importance) ==
  /\ ret = NoRet
  /\ \E id \in RandomUUID(issued) :
       LET row == NewRow(id, content, type, importance, clock) IN
       /\ issued' = issued \cup {id}
       /\ IF \E r \in db[GetDb(u)] : r.id = id
            THEN /\ UNCHANGED <<db, fts>>
                 /\ ret' = [op |-> "store", user |-> u, threw |-> TRUE]
            ELSE /\ db' = [db EXCEPT ![GetDb(u)] = InsertRow(db[GetDb(u)], row)]
                 /\ fts' = [fts EXCEPT ![GetDb(u)] = IF ftsSync THEN @ \cup {id} ELSE @]
                 /\ ret' = [op |-> "store", user |-> u, threw |-> FALSE,
                            id |-> id, success |-> TRUE]
  /\ UNCHANGED <<ftsSync, clock, passes, recalls>>

\* the results read back from the store after the updates
RecallResultsReread(rows, store) ==
  [i \in DOMAIN rows |-> CHOOSE r \in store : r.id = rows[i].id]

\* rows.map(...): the results are built from the rows the SELECT returned;
\* store is the store after the updates.  A last_accessed of NULL is left
\* out of the result (row.last_accessed || undefined) and stays NULL here.
RecallResults(rows, store) ==
  [i \in DOMAIN rows |->
     [id |-> rows[i].id, content |-> rows[i].content, type |-> rows[i].type,
      importance |-> rows[i].importance, activation |-> rows[i].activation,
      created_at |-> rows[i].created_at, last_accessed |-> rows[i].last_accessed]]

Recall(u, query, limit, types) ==
  /\ ret = NoRet
  /\ recalls < MaxRecalls
  /\ \E rows \in RecallRows(db[GetDb(u)], fts[GetDb(u)], query, limit, types) :
       /\ db' = [db EXCEPT ![GetDb(u)] =
                   TouchRows(db[GetDb(u)], {rows[i].id : i \in DOMAIN rows}, clock)]
       /\ ret' = [op |-> "recall", user |-> u, threw |-> FALSE,
                  results |-> RecallResults(rows,
                                TouchRows(db[GetDb(u)], {rows[i].id : i \in DOMAIN rows},
                                          clock)),
                  limit |-> limit, types |-> types,
                  path |-> IF Cardinality(fts[GetDb(u)]) > 0 THEN "fts" ELSE "like"]
  /\ recalls' = recalls + 1
  /\ UNCHANGED <<fts, ftsSync, issued, clock, passes>>

Consolidate(u) ==
  /\ ret = NoRet
  /\ passes < MaxPasses
  /\ db' = [db EXCEPT ![GetDb(u)] = ConsolidateStore(db[GetDb(u)])]
  /\ fts' = [fts EXCEPT ![GetDb(u)] = @ \cap {r.id : r \in ConsolidateStore(db[GetDb(u)])}]
  /\ ret' = [op |-> "consolidate", user |-> u, threw |-> FALSE,
             consolidated |-> TRUE, stats |-> ConsolidateStats(db[GetDb(u)])]
  /\ passes' = passes + 1
  /\ UNCHANGED <<ftsSync, issued, clock, recalls>>

GetStats(u) ==
  /\ ret = NoRet
  /\ ret' = [op |-> "stats", user |-> u, threw |-> FALSE, stats |-> Stats(db[GetDb(u)])]
  /\ UNCHANGED <<db, fts, ftsSync, issued, clock, passes, recalls>>

StoreCall ==
  /\ \E u \in ServiceCallers, a \in StoreArgs : Store(u, a.content, a.type, a.importance)
  /\ UNCHANGED <<apivars, tx>>

RecallCall ==
  /\ \E u \in ServiceCallers, q \in QuerySample, l \in LimitSample, ts \in TypesSample :
       Recall(u, q, l, ts)
  /\ UNCHANGED <<apivars, tx>>

ConsolidateCall ==
  /\ \E u \in ServiceCallers : Consolidate(u)
  /\ UNCHANGED <<apivars, tx>>

StatsCall ==
  /\ \E u \in ServiceCallers : GetStats(u)
  /\ UNCHANGED <<apivars, tx>>

\* the caller has received the answer; the next call can be made
Return ==
  /\ ret # NoRet \/ resp # NoResp
  /\ ret' = NoRet
  /\ resp' = NoResp
  /\ UNCHANGED <<db, fts, ftsSync, issued, clock, passes, recalls, usage_log, requests, tx,
               admitted, handles>>

Tick ==
  /\ ret = NoRet
  /\ resp = NoResp
  /\ \E d \in {Window, Window + 1} : clock + d <= MaxTime /\ clock' = clock + d
  /\ UNCHANGED <<db, fts, ftsSync, issued, passes, recalls, ret, usage_log, requests, resp, tx,
               admitted, handles>>

(* ------------------- the operations statement by statement ------------ *)
\* Two processes run the operations of one user on the same database file;
\* SQLite runs each statement on its own, so the statements of two
\* operations interleave.  tx[p] is where process p stands in its operation.
StepUser == "u1"

\* recall: the SELECT
RecallSelect(p, query, limit, types) ==
  /\ tx[p] = Idle
  /\ recalls < MaxRecalls
  /\ recalls' = recalls + 1
  /\ \E rows \in RecallRows(db[GetDb(StepUser)], fts[GetDb(StepUser)], query, limit, types) :
       tx' = [tx EXCEPT ![p] = IF Len(rows) = 0 THEN Idle
                               ELSE [op |-> "recall", rows |-> rows, next |-> 1]]
  /\ UNCHANGED <<db, fts, ftsSync, issued, clock, passes, ret, apivars>>

\* recall: one updateStmt.run(now, row.id); after the last one recall returns
RecallUpdate(p) ==
  /\ tx[p].op = "recall"
  /\ db' = [db EXCEPT ![GetDb(StepUser)] = TouchRows(@, {tx[p].rows[tx[p].next].id}, clock)]
  /\ tx' = [tx EXCEPT ![p] = IF tx[p].next = Len(tx[p].rows) THEN Idle
                             ELSE [@ EXCEPT !.next = @ + 1]]
  /\ UNCHANGED <<fts, ftsSync, issued, clock, passes, recalls, ret, apivars>>

\* store: the INSERT and the index entry
StoreInsert(p, content, type, importance) ==
  /\ tx[p] = Idle
  /\ \E id \in RandomUUID(issued) :
       /\ issued' = issued \cup {id}
       /\ db' = [db EXCEPT ![GetDb(StepUser)] =
                   InsertRow(@, NewRow(id, content, type, importance, clock))]
       /\ fts' = [fts EXCEPT ![GetDb(StepUser)] = IF ftsSync THEN @ \cup {id} ELSE @]
  /\ UNCHANGED <<ftsSync, clock, passes, recalls, ret, apivars, tx>>

\* consolidate: the count before.  startIssued, startPasses and solo are not
\* in the code: they remember which records existed when this consolidate()
\* started, how many had started by then, and whether it was the only one
\* in progress
ConsolidateBefore(p) ==
  /\ tx[p] = Idle
  /\ passes < MaxPasses
  /\ passes' = passes + 1
  /\ tx' = [tx EXCEPT ![p] = [op |-> "consolidate", pc |-> "decay",
                              beforeCount |-> Cardinality(db[GetDb(StepUser)]),
                              startIssued |-> issued, startPasses |-> passes + 1,
                              solo |-> \A q \in Procs : tx[q].op # "consolidate"]]
  /\ UNCHANGED <<db, fts, ftsSync, issued, clock, recalls, ret, apivars>>

\* consolidate: the decay UPDATE
ConsolidateDecay(p) ==
  /\ tx[p].op = "consolidate"
  /\ tx[p].pc = "decay"
  /\ db' = [db EXCEPT ![GetDb(StepUser)] = DecayRows(@)]
  /\ tx' = [tx EXCEPT ![p].pc = "delete"]
  /\ UNCHANGED <<fts, ftsSync, issued, clock, passes, recalls, ret, apivars>>

\* consolidate: the DELETE
ConsolidateDelete(p) ==
  /\ tx[p].op = "consolidate"
  /\ tx[p].pc = "delete"
  /\ db' = [db EXCEPT ![GetDb(StepUser)] = @ \ ForgottenRows(@)]
  /\ fts' = [fts EXCEPT ![GetDb(StepUser)] =
                 @ \ {r.id : r \in ForgottenRows(db[GetDb(StepUser)])}]
  /\ tx' = [tx EXCEPT ![p] = [op |-> "consolidate", pc |-> "after",
                              beforeCount |-> tx[p].beforeCount,
                              forgotten |-> Cardinality(ForgottenRows(db[GetDb(StepUser)])),
                              startIssued |-> tx[p].startIssued,
                              startPasses |-> tx[p].startPasses, solo |-> tx[p].solo]]
  /\ UNCHANGED <<ftsSync, issued, clock, passes, recalls, ret, apivars>>

\* memories_after taken as memories_before - forgotten, without the second
\* count
ConsolidateResponseDerived(beforeCount, forgotten, store) ==
  [memories_before |-> beforeCount, memories_after |-> beforeCount - forgotten,
   merged |-> 0, forgotten |-> forgotten]

\* the stats of the response: the two counts and the changes of the DELETE
ConsolidateResponse(beforeCount, forgotten, store) ==
  [memories_before |-> beforeCount, memories_after |-> Cardinality(store),
   merged |-> 0, forgotten |-> forgotten]

\* consolidate: the count after; the response is built
ConsolidateAfter(p) ==
  /\ tx[p].op = "consolidate"
  /\ tx[p].pc = "after"
  /\ tx' = [tx EXCEPT ![p] =
              [op |-> "consolidate", pc |-> "return",
               stats |-> ConsolidateResponse(tx[p].beforeCount, tx[p].forgotten,
                                             db[GetDb(StepUser)]),
               startIssued |-> tx[p].startIssued,
               startPasses |-> tx[p].startPasses, solo |-> tx[p].solo]]
  /\ UNCHANGED <<db, fts, ftsSync, issued, clock, passes, recalls, ret, apivars>>

\* consolidate: the finally, and the return of the response
ConsolidateReturn(p) ==
  /\ tx[p].op = "consolidate"
  /\ tx[p].pc = "return"
  /\ tx' = [tx EXCEPT ![p] = Idle]
  /\ UNCHANGED <<db, fts, ftsSync, issued, clock, passes, recalls, ret, apivars>>

\* stats: the first SELECT
StatsSelect(p) ==
  /\ tx[p] = Idle
  /\ tx' = [tx EXCEPT ![p] = [op |-> "stats", total |-> Cardinality(db[GetDb(StepUser)])]]
  /\ UNCHANGED <<db, fts, ftsSync, issued, clock, passes, recalls, ret, apivars>>

\* stats: the other SELECTs, and the return
StatsReturn(p) ==
  /\ tx[p].op = "stats"
  /\ tx' = [tx EXCEPT ![p] = Idle]
  /\ UNCHANGED <<db, fts, ftsSync, issued, clock, passes, recalls, ret, apivars>>

\* store() is called with content alone: type and importance take their
\* defaults
StepStoreArgs == {a \in StoreArgs : a.type = Undef /\ a.importance = Undef}

\* the index works; the store of the user is new or holds the old record
InitSteps ==
  /\ InitMemory({TRUE}, BOOLEAN)
  /\ usage_log = EmptyBag
  /\ admitted = EmptyBag
  /\ handles = 0
  /\ requests = 0
  /\ resp = NoResp

NextSteps ==
  \E p \in Procs :
     \/ \E q \in QuerySample, l \in LimitSample : RecallSelect(p, q, l, NoTypes)
     \/ RecallUpdate(p)
     \/ \E a \in StepStoreArgs : StoreInsert(p, a.content, a.type, a.importance)
     \/ ConsolidateBefore(p)
     \/ ConsolidateDecay(p)
     \/ ConsolidateDelete(p)
     \/ ConsolidateAfter(p)
     \/ ConsolidateReturn(p)
     \/ StatsSelect(p)
     \/ StatsReturn(p)

SpecSteps == InitSteps /\ [][NextSteps]_vars

(* --------------------------- auth and quota --------------------------- *)
NoToken == "<null>"

ToLowerCase(x) ==
  CASE x = "Bearer" -> "bearer"
    [] x = "Basic" -> "basic"
    [] OTHER -> x

\* header.parts is authHeader.split(' ')
ExtractBearerToken(header) ==
  IF ~header.present THEN NoToken
  ELSE IF ToLowerCase(header.parts[1]) # "bearer" THEN NoToken
  ELSE IF Len(header.parts) < 2 THEN NoToken
  ELSE IF header.parts[2] = "" THEN NoToken
  ELSE header.parts[2]

\* SHA-256 in hex, on the keys of the model
HashApiKey(key) ==
  CASE key = "key-free" -> "5f1b"
    [] key = "key-ent" -> "c07e"
    [] key = "test-key" -> "9a3d"
    [] OTHER -> "e3b0"

\* rows of the api_keys table
ApiKeys ==
  {[key_hash |-> "5f1b", user_id |-> "u1", tier |-> "free"],
   [key_hash |-> "c07e", user_id |-> "u2", tier |-> "enterprise"]}

TestApiKey == "test-key"

NoUser == [id |-> "none", tier |-> "none"]

\* a key that no row matches is taken for the free caller's
ValidateApiKeyLenient(apiKey) ==
  IF apiKey = TestApiKey
    THEN [valid |-> TRUE, user |-> [id |-> "test-user", tier |-> "pro"]]
  ELSE LET rows == {k \in ApiKeys : k.key_hash = HashApiKey(apiKey)}
       IN IF Cardinality(rows) # 1
            THEN [valid |-> TRUE, user |-> [id |-> "u1", tier |-> "free"]]
            ELSE LET data == CHOOSE k \in rows : TRUE
                 IN [valid |-> TRUE, user |-> [id |-> data.user_id, tier |-> data.tier]]

ValidateApiKey(apiKey) ==
  IF apiKey = TestApiKey
    THEN [valid |-> TRUE, user |-> [id |-> "test-user", tier |-> "pro"]]
  ELSE LET rows == {k \in ApiKeys : k.key_hash = HashApiKey(apiKey)}
       IN IF Cardinality(rows) # 1
            THEN [valid |-> FALSE, user |-> NoUser]
            ELSE LET data == CHOOSE k \in rows : TRUE
                 IN [valid |-> TRUE, user |-> [id |-> data.user_id, tier |-> data.tier]]

RateLimit(tier) ==
  CASE tier = "free" -> RateLimitFree
    [] tier = "pro" -> RateLimitPro
    [] tier = "enterprise" -> RateLimitEnterprise

RECURSIVE SumCopies(_, _)
SumCopies(log, entries) ==
  IF entries = {} THEN 0
  ELSE LET e == CHOOSE x \in entries : TRUE
       IN CopiesIn(e, log) + SumCopies(log, entries \ {e})

\* usage_log rows of the user with timestamp >= since
UsedSince(log, userId, since) ==
  SumCopies(log, {e \in BagToSet(log) : e.user_id = userId /\ e.timestamp >= since})

\* the comparison with <= in place of <
CheckQuotaInclusive(log, userId, tier, now, queryError) ==
  IF queryError THEN [allowed |-> TRUE, remaining |-> 0]
  ELSE LET used == UsedSince(log, userId, now - Window)
           limit == RateLimit(tier)
       IN [allowed |-> used <= limit, remaining |-> Max(0, limit - used)]

\* a failed count query refuses the request
CheckQuotaFailClosed(log, userId, tier, now, queryError) ==
  IF queryError THEN [allowed |-> FALSE, remaining |-> 0]
  ELSE LET used == UsedSince(log, userId, now - Window)
           limit == RateLimit(tier)
       IN [allowed |-> used < limit, remaining |-> Max(0, limit - used)]

\* the count taken over the last 120 seconds
CheckQuotaTwoWindows(log, userId, tier, now, queryError) ==
  IF queryError THEN [allowed |-> TRUE, remaining |-> 0]
  ELSE LET used == UsedSince(log, userId, now - 2 * Window)
           limit == RateLimit(tier)
       IN [allowed |-> used < limit, remaining |-> Max(0, limit - used)]

\* queryError: the count query came back with an error
CheckQuota(log, userId, tier, now, queryError) ==
  IF queryError THEN [allowed |-> TRUE, remaining |-> 0]
  ELSE LET used == UsedSince(log, userId, now - Window)
           limit == RateLimit(tier)
       IN [allowed |-> used < limit, remaining |-> Max(0, limit - used)]

LogUsage(log, userId, now) == log (+) SetToBag({[user_id |-> userId, timestamp |-> now]})

\* admitted records every call of a route handler: whose request, and when
Invoked(calls, userId, now) == calls (+) SetToBag({[user_id |-> userId, timestamp |-> now]})

AuthenticateRequest(header, log, now, queryError) ==
  LET apiKey == ExtractBearerToken(header)
      validation == ValidateApiKey(apiKey)
      quota == CheckQuota(log, validation.user.id, validation.user.tier, now, queryError)
  IN IF apiKey = NoToken
       THEN [status |-> 401, code |-> "UNAUTHORIZED", user |-> NoUser, quota_checked |-> FALSE]
     ELSE IF ~validation.valid
       THEN [status |-> 401, code |-> "UNAUTHORIZED", user |-> NoUser, quota_checked |-> FALSE]
     ELSE IF ~quota.allowed
       THEN [status |-> 429, code |-> "RATE_LIMITED", user |-> validation.user,
             quota_checked |-> TRUE]
     ELSE [status |-> 200, code |-> "OK", user |-> validation.user, quota_checked |-> TRUE]

(* ---------------------------- route handlers -------------------------- *)
Ok == [status |-> 200, code |-> "OK"]
ValidationError == [status |-> 400, code |-> "VALIDATION_ERROR"]
BadRequest == [status |-> 400, code |-> "BAD_REQUEST"]
InternalError == [status |-> 500, code |-> "INTERNAL_ERROR"]

\* the store handler without its length check
StoreValidationNoLength(body) ==
  IF body.kind = "invalid_json" THEN BadRequest
  ELSE IF body.kind = "null" THEN InternalError
  ELSE IF ~Truthy(body.content) \/ body.content.t # "string" THEN ValidationError
  ELSE IF Truthy(body.type) /\ ~(body.type.t = "string" /\ body.type.s \in MemoryTypes)
    THEN ValidationError
  ELSE IF body.importance.t # "undefined"
          /\ (body.importance.t # "number" \/ body.importance.n < 0 \/ body.importance.n > One)
    THEN ValidationError
  ELSE Ok

\* the checks of the store handler before memory.store(); reading a field of
\* a null body throws, which withAuth turns into 500
StoreValidation(body) ==
  IF body.kind = "invalid_json" THEN BadRequest
  ELSE IF body.kind = "null" THEN InternalError
  ELSE IF ~Truthy(body.content) \/ body.content.t # "string" THEN ValidationError
  ELSE IF body.content.length > MaxContentLength THEN ValidationError
  ELSE IF Truthy(body.type) /\ ~(body.type.t = "string" /\ body.type.s \in MemoryTypes)
    THEN ValidationError
  ELSE IF body.importance.t # "undefined"
          /\ (body.importance.t # "number" \/ body.importance.n < 0 \/ body.importance.n > One)
    THEN ValidationError
  ELSE Ok

\* body.limit ?? 10
LimitOf(body) == IF body.limit.t \in {"undefined", "object"} THEN JNum(DefaultLimit) ELSE body.limit

\* types.kind: "undefined" (absent), "falsy" (a falsy value such as 0, which
\* if (body.types) skips), "other" (a truthy value that is not an array),
\* "array"
RecallValidation(body) ==
  IF body.kind = "invalid_json" THEN BadRequest
  ELSE IF body.kind = "null" THEN InternalError
  ELSE IF ~Truthy(body.query) \/ body.query.t # "string" THEN ValidationError
  ELSE IF LimitOf(body).t # "number" \/ LimitOf(body).n < 1 \/ LimitOf(body).n > MaxLimit
    THEN ValidationError
  ELSE IF body.types.kind = "other" THEN ValidationError
  ELSE IF body.types.kind = "array" /\ ~(body.types.list \subseteq MemoryTypes)
    THEN ValidationError
  ELSE Ok

Validation(route, body) ==
  CASE route = "store" -> StoreValidation(body)
    [] route = "recall" -> RecallValidation(body)
    [] OTHER -> Ok

SuccessStatus(route) == IF route = "store" THEN 201 ELSE 200

Handler(route, userId, body) ==
  CASE route = "store" -> Store(userId, body.content, body.type, body.importance)
    [] route = "recall" -> Recall(userId, body.query, LimitOf(body).n, body.types)
    [] route = "consolidate" -> Consolidate(userId)
    [] route = "stats" -> GetStats(userId)

Response(route, header, body, outcome, user, handler, remaining, quotaChecked, quotaError) ==
  [route |-> route, header |-> header, body |-> body,
   status |-> outcome.status, code |-> outcome.code, user |-> user,
   handler |-> handler, quota_checked |-> quotaChecked, quota_error |-> quotaError,
   remaining |-> remaining,
   retry_after |-> IF outcome.status = 429 THEN Window ELSE NULL,
   reset |-> IF outcome.status = 429 THEN clock + Window ELSE NULL]

\* withAuth(handler): authenticateRequest, logUsage, the handler, and the
\* second checkQuota that fills X-RateLimit-Remaining.  insertError: the
\* insert of logUsage came back with an error, which logUsage does not read;
\* insertErrors are the outcomes of the insert that are considered
WithAuth(route, header, body, insertErrors) ==
  /\ ret = NoRet
  /\ resp = NoResp
  /\ requests < MaxRequests
  /\ requests' = requests + 1
  /\ UNCHANGED <<tx, handles>>
  /\ \E queryError, headerError \in BOOLEAN, insertError \in insertErrors :
       LET auth == AuthenticateRequest(header, usage_log, clock, queryError)
           outcome == Validation(route, body)
       IN IF auth.status # 200
            THEN /\ resp' = Response(route, header, body, auth, auth.user, FALSE,
                                     IF auth.status = 429 THEN 0 ELSE NULL,
                                     auth.quota_checked,
                                     auth.quota_checked /\ queryError)
                 /\ ret' = NoRet
                 /\ UNCHANGED <<db, fts, ftsSync, issued, clock, passes, recalls, usage_log,
                                admitted>>
          ELSE /\ usage_log' = IF insertError THEN usage_log
                                ELSE LogUsage(usage_log, auth.user.id, clock)
               /\ admitted' = Invoked(admitted, auth.user.id, clock)
               /\ IF outcome.status # 200
                    THEN /\ ret' = NoRet
                         /\ UNCHANGED <<db, fts, ftsSync, issued, clock, passes, recalls>>
                    ELSE Handler(route, auth.user.id, body)
               /\ resp' =
                    LET final == IF outcome.status # 200 THEN outcome
                                 ELSE IF ret'.threw THEN InternalError
                                 ELSE [status |-> SuccessStatus(route), code |-> "OK"]
                    IN Response(route, header, body, final, auth.user, TRUE,
                                IF final.status = 500 THEN NULL
                                ELSE CheckQuota(usage_log', auth.user.id, auth.user.tier,
                                                clock, headerError).remaining,
                                TRUE, queryError)

(* -------------------------- inputs of the API ------------------------- *)
NoHeader == [present |-> FALSE, parts |-> <<>>]
Header(parts) == [present |-> TRUE, parts |-> parts]

FreeCaller == Header(<<"Bearer", "key-free">>)

CallerHeaders ==
  {FreeCaller, Header(<<"Bearer", "key-ent">>), Header(<<"bearer", "test-key">>)}

BadHeaders ==
  {NoHeader, Header(<<"Basic", "key-free">>), Header(<<"Bearer">>),
   Header(<<"Bearer", "", "key-free">>), Header(<<"Bearer", "invalid-key">>)}

NoBody == [kind |-> "none"]

StoreBody(content, type, importance) ==
  [kind |-> "object", content |-> content, type |-> type, importance |-> importance]

StoreBodies ==
  {StoreBody(a.content, a.type, a.importance) : a \in StoreArgs}
  \cup {[kind |-> k, content |-> Undef, type |-> Undef, importance |-> Undef] :
          k \in {"invalid_json", "null"}}
  \cup {StoreBody(c, Undef, Undef) :
          c \in {Undef, JNull, JStr("", 0), JNum(42),
                 JStr("user python", MaxContentLength + 1)}}
  \cup {StoreBody(JStr("python", 6), t, Undef) : t \in {JStr("bogus", 5), JStr("", 0)}}
  \cup {StoreBody(JStr("python", 6), Undef, i) :
          i \in {JNum(0), JNum(One + 500000), JNum(0 - 100000), JStr("high", 4)}}

RecallBody(query, limit, types) ==
  [kind |-> "object", query |-> query, limit |-> limit, types |-> types]

RecallBodies ==
  {RecallBody(q, Undef, NoTypes) : q \in QuerySample \cup {Undef, JStr("", 0)}}
  \cup {RecallBody(JStr("python", 6), JNum(l), ts) : l \in LimitSample, ts \in TypesSample}
  \cup {RecallBody(JStr("python", 6), l, NoTypes) :
          l \in {JNum(0), JNum(MaxLimit + 1), JStr("5", 1)}}
  \cup {RecallBody(JStr("python", 6), Undef, ts) :
          ts \in {[kind |-> "other", list |-> {}], [kind |-> "falsy", list |-> {}],
                  [kind |-> "array", list |-> {"bogus"}]}}
  \cup {[kind |-> k, query |-> Undef, limit |-> Undef, types |-> NoTypes] :
          k \in {"invalid_json", "null"}}

Bodies(route) ==
  CASE route = "store" -> StoreBodies
    [] route = "recall" -> RecallBodies
    [] OTHER -> {NoBody}

GoodBody(route) ==
  CASE route = "store" -> StoreBody(JStr("python", 6), Undef, Undef)
    [] route = "recall" -> RecallBody(JStr("python", 6), Undef, NoTypes)
    [] OTHER -> NoBody

\* every body under the free caller's key, one good body under every header
RouteInserting(route, insertErrors) ==
  \/ \E b \in Bodies(route) : WithAuth(route, FreeCaller, b, insertErrors)
  \/ \E h \in CallerHeaders \cup BadHeaders :
       WithAuth(route, h, GoodBody(route), insertErrors)

\* the requests whose usage entry is inserted
Route(route) == RouteInserting(route, {FALSE})

StoreRequest == Route("store")

RecallRequest == Route("recall")

ConsolidateRequest == Route("consolidate")

StatsRequest == Route("stats")

TierOf(u) == CASE u = "u1" -> "free" [] u = "u2" -> "enterprise" [] OTHER -> "pro"

\* every caller has been admitted for all but UsageGap of the requests of its
\* ceiling at second 0
BusyLog ==
  [e \in {[user_id |-> u, timestamp |-> 0] : u \in Users} |->
     RateLimit(TierOf(e.user_id)) - UsageGap]

\* the stores are new and their index works; every caller is either new or
\* busy
InitApi ==
  /\ InitMemory({TRUE}, {FALSE})
  /\ usage_log \in {EmptyBag, BusyLog}
  /\ admitted = usage_log
  /\ handles = 0
  /\ requests = 0
  /\ resp = NoResp

NextApi ==
  StoreRequest \/ RecallRequest \/ ConsolidateRequest \/ StatsRequest \/ Return \/ Tick

SpecApi == InitApi /\ [][NextApi]_vars

\* the requests of two routes, whose usage entry is inserted or not: what
\* withAuth does before and after the handler does not depend on the route
RecallRequestLogging == RouteInserting("recall", BOOLEAN)

StatsRequestLogging == RouteInserting("stats", BOOLEAN)

NextQuota == RecallRequestLogging \/ StatsRequestLogging \/ Return \/ Tick

SpecQuota == InitApi /\ [][NextQuota]_vars

(* ------------------ withAuth, one await after the other --------------- *)
\* Two requests are in flight at once.  withAuth awaits authenticateRequest
\* (with its checkQuota), then logUsage, then the handler, then the second
\* checkQuota; between two awaits the other request runs.  The count query
\* succeeds here; the route is GET stats.
ReqAuthenticate(p, header) ==
  /\ tx[p] = Idle
  /\ requests < MaxRequests
  /\ requests' = requests + 1
  /\ LET auth == AuthenticateRequest(header, usage_log, clock, FALSE)
     IN tx' = [tx EXCEPT ![p] = IF auth.status # 200 THEN Idle
                                 ELSE [op |-> "request", pc |-> "logUsage",
                                       user |-> auth.user]]
  /\ UNCHANGED <<memvars, ftsSync, clock, ret, usage_log, resp, admitted, handles>>

ReqLogUsage(p) ==
  /\ tx[p].op = "request"
  /\ tx[p].pc = "logUsage"
  /\ \E insertError \in BOOLEAN :
       usage_log' = IF insertError THEN usage_log
                    ELSE LogUsage(usage_log, tx[p].user.id, clock)
  /\ tx' = [tx EXCEPT ![p].pc = "handler"]
  /\ UNCHANGED <<memvars, ftsSync, clock, ret, requests, resp, admitted, handles>>

ReqHandler(p) ==
  /\ tx[p].op = "request"
  /\ tx[p].pc = "handler"
  /\ Handler("stats", tx[p].user.id, [kind |-> "none"])
  /\ admitted' = Invoked(admitted, tx[p].user.id, clock)
  /\ tx' = [tx EXCEPT ![p].pc = "checkQuota"]
  /\ UNCHANGED <<usage_log, requests, resp, handles>>

\* the second checkQuota and the return of the response
ReqReturn(p) ==
  /\ tx[p].op = "request"
  /\ tx[p].pc = "checkQuota"
  /\ ret' = NoRet
  /\ tx' = [tx EXCEPT ![p] = Idle]
  /\ UNCHANGED <<memvars, ftsSync, clock, usage_log, requests, resp, admitted, handles>>

\* every caller has one request left in the window that started at second 0
NearLog ==
  [e \in {[user_id |-> u, timestamp |-> 0] : u \in Users} |->
     RateLimit(TierOf(e.user_id)) - UsageGap - 1]

InitRace ==
  /\ InitMemory({TRUE}, {FALSE})
  /\ usage_log = NearLog
  /\ admitted = usage_log
  /\ handles = 0
  /\ requests = 0
  /\ resp = NoResp

NextRace ==
  \/ \E p \in Procs :
       \/ \E h \in CallerHeaders \cup BadHeaders : ReqAuthenticate(p, h)
       \/ ReqLogUsage(p)
       \/ ReqHandler(p)
       \/ ReqReturn(p)
  \/ Tick

SpecRace == InitRace /\ [][NextRace]_vars

Next == StoreCall \/ RecallCall \/ ConsolidateCall \/ StatsCall \/ Return \/ Tick

Spec == Init /\ [][Next]_vars

(* ---------------- stores with a record at the threshold --------------- *)
\* the activation of a record after one more recall() that returned it
RecallOnce(a) == IF a = NULL THEN NULL ELSE Boost(a)

AfterRecallsOf[a \in Int, k \in Nat] ==
  IF k = 0 THEN a
  ELSE IF k = 1 THEN RecallOnce(a)
  ELSE AfterRecallsOf[AfterRecallsOf[a, k \div 2], k - (k \div 2)]

\* a life of a record: 67 passes, then 36 recalls that returned it, then 71
\* passes, and so on; in millionths it ends at exactly 0.01
ThresholdHistory == <<67, 36, 71, 38, 76, 40, 48, 11, 60>>

AfterHistoryOf[a \in Int, i \in Nat] ==
  IF i = 0 THEN a
  ELSE IF i % 2 = 1 THEN AfterPassesOf[AfterHistoryOf[a, i - 1], ThresholdHistory[i]]
  ELSE AfterRecallsOf[AfterHistoryOf[a, i - 1], ThresholdHistory[i]]

\* the seeded record of SeedStore and a record that has lived ThresholdHistory
DecaySeeds ==
  SeedStore \cup
  LET a == AfterHistoryOf[One, Len(ThresholdHistory)]
      row == NewRow(SeedId + 1, JStr("python", 6), JStr("factual", 7), JNum(DefaultImportance), 0)
  IN IF a = NULL THEN {} ELSE {[row EXCEPT !.activation = a, !.last_accessed = 0]}

InitDecay ==
  /\ ftsSync = TRUE
  /\ \E held \in SUBSET DecaySeeds \ {{}} :
       /\ db = [u \in Users |-> IF u = "u1" THEN held ELSE {}]
       /\ fts = [u \in Users |-> IF u = "u1" THEN {r.id : r \in held} ELSE {}]
  /\ issued = {SeedId, SeedId + 1}
  /\ clock = 0
  /\ passes = 0
  /\ recalls = 0
  /\ ret = NoRet
  /\ tx = [p \in Procs |-> Idle]
  /\ usage_log = EmptyBag
  /\ admitted = EmptyBag
  /\ handles = 0
  /\ requests = 0
  /\ resp = NoResp

SpecDecay == InitDecay /\ [][Next]_vars

(* ------------------ consolidate() invoked again and again ------------- *)
\* consolidate() as in Consolidate, its calls not counted: the caller keeps
\* invoking it
ConsolidateAgain(u) ==
  /\ ret = NoRet
  /\ db' = [db EXCEPT ![GetDb(u)] = ConsolidateStore(db[GetDb(u)])]
  /\ fts' = [fts EXCEPT ![GetDb(u)] = @ \cap {r.id : r \in ConsolidateStore(db[GetDb(u)])}]
  /\ ret' = [op |-> "consolidate", user |-> u, threw |-> FALSE,
             consolidated |-> TRUE, stats |-> ConsolidateStats(db[GetDb(u)])]
  /\ UNCHANGED <<ftsSync, issued, clock, passes, recalls>>

ConsolidateLive ==
  /\ \E u \in ServiceCallers : ConsolidateAgain(u)
  /\ UNCHANGED <<apivars, tx>>

\* the stores hold records that many earlier passes have decayed, the
\* recalls raise them again, and the passes go on
NextLive == RecallCall \/ ConsolidateLive \/ Return \/ Tick

\* every call returns, and the caller keeps invoking consolidate()
SpecLive ==
  InitDecay /\ [][NextLive]_vars /\ WF_vars(Return) /\ SF_vars(ConsolidateLive)

(* ------------------ a caller that recalls before every pass ----------- *)
\* The caller is process Rehearser: it runs recall(), holds the results it
\* got in tx, and only then runs consolidate(), again and again.  Other
\* records are stored in between.
Rehearser == "p1"

RehearseRecall ==
  /\ \E u \in ServiceCallers, q \in QuerySample, l \in LimitSample, ts \in TypesSample :
       Recall(u, q, l, ts)
  /\ tx' = [tx EXCEPT ![Rehearser] = [op |-> "held", results |-> ret'.results]]
  /\ UNCHANGED apivars

RehearseConsolidate ==
  /\ tx[Rehearser].op = "held"
  /\ \E u \in ServiceCallers : Consolidate(u)
  /\ tx' = [tx EXCEPT ![Rehearser] = Idle]
  /\ UNCHANGED apivars

NextRehearse == RehearseRecall \/ RehearseConsolidate \/ StoreCall \/ Return \/ Tick

SpecRehearse == InitDecay /\ [][NextRehearse]_vars

(* ------------------------------ AgentLoop.run ------------------------- *)
\* One AgentLoop and one run() of it, await by await.  tx[Agent] holds the
\* fields and locals of the run: maxToolIterations, response, toolIterations,
\* totalToolsUsed, the index of the tool call the for loop is at (next), and
\* two counts kept for the properties: llmCalls, the calls made to the LLM
\* provider, and executed, the executeTool invocations, whose effects on the
\* bot's files and memory stay.  ret holds what run() resolved with.
Agent == "p1"

\* config.maxToolIterations || 5: undefined (NULL) and 0 give the default
ToolIterations(configured) ==
  IF configured = NULL \/ configured = 0 THEN DefaultToolIterations ELSE configured

ConfigSample == {NULL} \cup 0..MaxConfigured

\* what a call of the LLM provider can do: throw, resolve with undefined, or
\* resolve with a response whose toolCalls is undefined (NULL) or an array
\* of 0..MaxToolCalls calls, and whose text names the call that produced it
LLMOutcomes(call) ==
  {[kind |-> "throws"], [kind |-> "undefined"]}
  \cup {[kind |-> "response", toolCalls |-> c, text |-> [said |-> "llm", call |-> call]] :
          c \in {NULL} \cup 0..MaxToolCalls}

NoResponse == [kind |-> "none"]

\* the while condition with no bound on the rounds
WhileConditionUnbounded(response, toolIterations, maxToolIterations) ==
  response.toolCalls # NULL

\* response.toolCalls && toolIterations < this.maxToolIterations: an array
\* is truthy, the empty one too
WhileCondition(response, toolIterations, maxToolIterations) ==
  response.toolCalls # NULL /\ toolIterations < maxToolIterations

\* tools_used counting the rounds
OutputCountingRounds(response, toolIterations, totalToolsUsed) ==
  [op |-> "run", caught |-> FALSE, message |-> response.text,
   memories_recalled |-> 0, tools_used |-> toolIterations]

\* the AgentOutput of the success path; recallMemories returns []
Output(response, toolIterations, totalToolsUsed) ==
  [op |-> "run", caught |-> FALSE, message |-> response.text,
   memories_recalled |-> 0, tools_used |-> totalToolsUsed]

\* the AgentOutput of the catch block
Apology ==
  [op |-> "run", caught |-> TRUE, message |-> [said |-> "apology", call |-> 0],
   memories_recalled |-> 0, tools_used |-> 0]

AgentUnchanged ==
  UNCHANGED <<memvars, ftsSync, clock, usage_log, requests, resp, admitted, handles>>

\* catch (error): run() resolves with the apology
RunCatch(llmCalls) ==
  /\ tx' = [tx EXCEPT ![Agent].pc = "returned", ![Agent].llmCalls = llmCalls]
  /\ ret' = Apology

\* steps 1 to 4: recallMemories, getIdentity, getSoul, the two prompts; the
\* bot's identity can throw
RunPrepare ==
  /\ tx[Agent].op = "run"
  /\ tx[Agent].pc = "start"
  /\ \E throws \in BOOLEAN :
       IF throws THEN RunCatch(tx[Agent].llmCalls)
       ELSE /\ tx' = [tx EXCEPT ![Agent].pc = "call"]
            /\ ret' = ret
  /\ AgentUnchanged

\* step 5: await this.llmProvider.call(...)
RunCall ==
  /\ tx[Agent].op = "run"
  /\ tx[Agent].pc = "call"
  /\ \E o \in LLMOutcomes(tx[Agent].llmCalls + 1) :
       IF o.kind = "throws" THEN RunCatch(tx[Agent].llmCalls + 1)
       ELSE /\ tx' = [tx EXCEPT ![Agent].pc = "while", ![Agent].response = o,
                                ![Agent].llmCalls = @ + 1]
            /\ ret' = ret
  /\ AgentUnchanged

\* the while test; when it fails, steps 7 and 8.  Reading toolCalls of an
\* undefined response throws.
RunWhile ==
  /\ tx[Agent].op = "run"
  /\ tx[Agent].pc = "while"
  /\ LET t == tx[Agent] IN
     IF t.response.kind = "undefined" THEN RunCatch(t.llmCalls)
     ELSE IF WhileCondition(t.response, t.toolIterations, t.maxToolIterations)
       THEN /\ tx' = [tx EXCEPT ![Agent].pc = IF t.response.toolCalls = 0 THEN "followup"
                                              ELSE "tool",
                                ![Agent].next = 1]
            /\ ret' = ret
       ELSE /\ tx' = [tx EXCEPT ![Agent].pc = "returned"]
            /\ ret' = Output(t.response, t.toolIterations, t.totalToolsUsed)
  /\ AgentUnchanged

\* one round of the for loop: await executeTool(toolCall, this.bot), which
\* catches what the tool throws and resolves with success: false
RunExecuteTool ==
  /\ tx[Agent].op = "run"
  /\ tx[Agent].pc = "tool"
  /\ tx' = [tx EXCEPT ![Agent].executed = @ + 1,
                      ![Agent].totalToolsUsed = @ + 1,
                      ![Agent].next = @ + 1,
                      ![Agent].pc = IF tx[Agent].next = tx[Agent].response.toolCalls
                                    THEN "followup" ELSE "tool"]
  /\ ret' = ret
  /\ AgentUnchanged

\* await this.llmProvider.callWithToolResults(...); toolIterations++
RunCallWithToolResults ==
  /\ tx[Agent].op = "run"
  /\ tx[Agent].pc = "followup"
  /\ \E o \in LLMOutcomes(tx[Agent].llmCalls + 1) :
       IF o.kind = "throws" THEN RunCatch(tx[Agent].llmCalls + 1)
       ELSE /\ tx' = [tx EXCEPT ![Agent].pc = "while", ![Agent].response = o,
                                ![Agent].llmCalls = @ + 1,
                                ![Agent].toolIterations = @ + 1]
            /\ ret' = ret
  /\ AgentUnchanged

\* new AgentLoop(config), and run() entered
InitAgent ==
  /\ ftsSync = TRUE
  /\ db = [u \in Users |-> {}]
  /\ fts = [u \in Users |-> {}]
  /\ issued = {}
  /\ clock = 0
  /\ passes = 0
  /\ recalls = 0
  /\ ret = NoRet
  /\ usage_log = EmptyBag
  /\ admitted = EmptyBag
  /\ handles = 0
  /\ requests = 0
  /\ resp = NoResp
  /\ \E configured \in ConfigSample :
       tx = [p \in Procs |->
               IF p = Agent
                 THEN [op |-> "run", pc |-> "start",
                       maxToolIterations |-> ToolIterations(configured),
                       response |-> NoResponse, toolIterations |-> 0,
                       totalToolsUsed |-> 0, next |-> 0, llmCalls |-> 0, executed |-> 0]
               ELSE Idle]

NextAgent == RunPrepare \/ RunCall \/ RunWhile \/ RunExecuteTool \/ RunCallWithToolResults

\* every await of run() settles
SpecAgent == InitAgent /\ [][NextAgent]_vars /\ WF_vars(NextAgent)

(* ------------------------- storage handles ---------------------------- *)
\* Every MemoryService method starts with getDb(this.userId) and runs its
\* statements in try { ... } finally { db.close() }.  handles counts the open
\* connections; tx[p] is where the call of process p stands; a statement of
\* SQLite can throw (the file is locked, is not a database, the disk is full).
Calls == {"store", "recall", "consolidate", "stats"}

\* new Database(dbPath) in getDb
GetDbOpen(p, call) ==
  /\ tx[p] = Idle
  /\ requests < MaxRequests
  /\ requests' = requests + 1
  /\ handles' = handles + 1
  /\ tx' = [tx EXCEPT ![p] = [op |-> "getDb", call |-> call]]
  /\ UNCHANGED <<memvars, ftsSync, clock, ret, usage_log, resp, admitted>>

\* db.exec(CREATE TABLE IF NOT EXISTS ...) in getDb: when it throws, the
\* exception leaves getDb and the method, whose try has not been entered
GetDbSchema(p) ==
  /\ tx[p].op = "getDb"
  /\ ret = NoRet
  /\ \E throws \in BOOLEAN :
       IF throws
         THEN /\ tx' = [tx EXCEPT ![p] = Idle]
              /\ ret' = [op |-> tx[p].call, user |-> StepUser, threw |-> TRUE]
         ELSE /\ tx' = [tx EXCEPT ![p] = [op |-> "try", call |-> tx[p].call]]
              /\ ret' = ret
  /\ UNCHANGED <<memvars, ftsSync, clock, usage_log, requests, resp, admitted, handles>>

\* the statements of the method, then db.close() in its finally
MethodBody(p) ==
  /\ tx[p].op = "try"
  /\ CASE tx[p].call = "store" ->
            \E a \in StoreArgs : Store(StepUser, a.content, a.type, a.importance)
       [] tx[p].call = "recall" ->
            \E q \in QuerySample, l \in LimitSample : Recall(StepUser, q, l, NoTypes)
       [] tx[p].call = "consolidate" -> Consolidate(StepUser)
       [] tx[p].call = "stats" -> GetStats(StepUser)
  /\ handles' = handles - 1
  /\ tx' = [tx EXCEPT ![p] = Idle]
  /\ UNCHANGED <<usage_log, requests, resp, admitted>>

\* the first statement of the method throws; its finally runs db.close()
MethodThrows(p) ==
  /\ tx[p].op = "try"
  /\ ret = NoRet
  /\ ret' = [op |-> tx[p].call, user |-> StepUser, threw |-> TRUE]
  /\ handles' = handles - 1
  /\ tx' = [tx EXCEPT ![p] = Idle]
  /\ UNCHANGED <<memvars, ftsSync, clock, usage_log, requests, resp, admitted>>

InitHandles ==
  /\ InitMemory({TRUE}, BOOLEAN)
  /\ usage_log = EmptyBag
  /\ admitted = EmptyBag
  /\ handles = 0
  /\ requests = 0
  /\ resp = NoResp

NextHandles ==
  \/ \E p \in Procs :
       \/ \E call \in Calls : GetDbOpen(p, call)
       \/ GetDbSchema(p)
       \/ MethodBody(p)
       \/ MethodThrows(p)
  \/ Return
  \/ Tick

SpecHandles == InitHandles /\ [][NextHandles]_vars

(* ------------------------------ properties ---------------------------- *)
IdsOf(store) == {r.id : r \in store}

\* the columns store() writes and nothing else is meant to touch
Frozen(r) == <<r.id, r.content, r.type, r.importance, r.created_at>>

\* C1: a store() call adds exactly one record, under an identifier that no
\* record of that user's store had, and stats().total_memories read right
\* after the call is 1 greater than right before it.
C1_StoreAddsOneFreshRecord ==
  [][(ret.op = "none" /\ ret'.op = "store") =>
       LET u == ret'.user IN
       /\ ~ret'.threw
       /\ ret'.id \notin IdsOf(db[u])
       /\ \E row \in db'[u] :
            /\ row.id = ret'.id
            /\ row \notin db[u]
            /\ db'[u] = db[u] \cup {row}
       /\ Cardinality(db'[u]) = Cardinality(db[u]) + 1
       /\ Stats(db'[u]).total_memories = Stats(db[u]).total_memories + 1]_vars

\* a store() has returned in a store that already held a record
C1_Witness ==
  /\ ret.op = "store"
  /\ ~ret.threw
  /\ Cardinality(db[ret.user]) >= 2

\* C2: with a limit in 1..100, recall() returns at most limit records, and
\* with a non-empty types set every returned record has one of those types,
\* on the full-text path and on the LIKE path.
C2_RecallWithinLimitAndTypes ==
  (ret.op = "recall" /\ ret.limit \in 1 .. MaxLimit) =>
     /\ Len(ret.results) <= ret.limit
     /\ (ret.types.kind = "array" /\ ret.types.list # {}) =>
          \A i \in DOMAIN ret.results : ret.results[i].type \in ret.types.list

\* a recall() on the LIKE path, with a types set, whose limit cut off a
\* record of a requested type
C2_Witness ==
  /\ ret.op = "recall"
  /\ ret.path = "like"
  /\ ret.types.list # {}
  /\ Len(ret.results) = ret.limit
  /\ \E r \in db[ret.user] :
       /\ r.type \in ret.types.list
       /\ \A i \in DOMAIN ret.results : ret.results[i].id # r.id

\* C3: when consolidate() has returned, every record left in that user's
\* store has activation >= 0.01.
C3_RemainingAboveThreshold ==
  ret.op = "consolidate" =>
     \A r \in db[ret.user] : r.activation >= ForgetThreshold

\* a consolidate() that deleted a record and left another
C3_Witness ==
  /\ ret.op = "consolidate"
  /\ ret.stats.forgotten > 0
  /\ db[ret.user] # {}

\* C4: a consolidate() response has memories_after = memories_before -
\* forgotten, forgotten is the number of records the call deleted, and
\* merged is 0.
C4_ConsolidateCounts ==
  [][(ret.op = "none" /\ ret'.op = "consolidate") =>
       LET u == ret'.user
           st == ret'.stats
       IN /\ st.forgotten = Cardinality(IdsOf(db[u]) \ IdsOf(db'[u]))
          /\ st.memories_before = Cardinality(db[u])
          /\ st.memories_after = Cardinality(db'[u])
          /\ st.memories_after = st.memories_before - st.forgotten
          /\ st.merged = 0]_vars

\* a consolidate() response that reports a deletion out of two records
C4_Witness ==
  /\ ret.op = "consolidate"
  /\ ret.stats.memories_before = 2
  /\ ret.stats.forgotten = 1

\* C5: every record a recall() returns has afterwards a stored activation
\* strictly greater than before, or 1.0 if it was 1.0 already, and never
\* more than 1.0, also when the recall is repeated.
C5_RecallBoosts ==
  [][(ret.op = "none" /\ ret'.op = "recall") =>
       \A i \in DOMAIN ret'.results :
          \E old \in db[ret'.user], new \in db'[ret'.user] :
             /\ old.id = ret'.results[i].id
             /\ new.id = old.id
             /\ IF old.activation = One
                  THEN new.activation = One
                  ELSE new.activation > old.activation
             /\ new.activation <= One]_vars

\* a repeated recall() returned a record below 1.0 whose boost was clamped
C5_Witness ==
  /\ ret.op = "recall"
  /\ recalls = MaxRecalls
  /\ \E i \in DOMAIN ret.results :
       /\ ret.results[i].activation < One
       /\ \E r \in db[ret.user] : r.id = ret.results[i].id /\ r.activation = One

\* C6: in every reachable state every stored record's activation is in
\* [0, 1].
C6_ActivationInUnitInterval ==
  \A u \in Users : \A r \in db[u] : 0 <= r.activation /\ r.activation <= One

\* after recalls and consolidations a store holds a record at 1.0 beside a
\* record below it
C6_Witness ==
  /\ passes > 0
  /\ recalls > 0
  /\ \E u \in Users : \E r, q \in db[u] : r.activation = One /\ q.activation < One

\* C7: recall(), consolidate() and stats() leave the identifier, content,
\* type, importance and created timestamp of every record that still exists
\* as store() wrote them.
C7_FrozenColumns ==
  [][(ret.op = "none" /\ ret'.op \in {"recall", "consolidate", "stats"}) =>
       \A u \in Users :
          /\ {Frozen(r) : r \in db'[u]} \subseteq {Frozen(r) : r \in db[u]}
          /\ \A r \in db[u], q \in db'[u] : r.id = q.id => Frozen(r) = Frozen(q)]_vars

\* a record that has been recalled and decayed is still in its store
C7_Witness ==
  /\ ret.op = "consolidate"
  /\ \E r \in db[ret.user] : r.last_accessed # NULL /\ r.activation < One

\* the request has been answered by this step and had passed authentication
\* and the quota check
Admitted(route) == resp.route = "none" /\ resp'.route = route /\ resp'.handler

\* content that is missing, null, not a string, empty or too long
BadContent(body) ==
  \/ body.content.t # "string"
  \/ body.content.length = 0
  \/ body.content.length > MaxContentLength

Rejected ==
  /\ resp'.status = 400
  /\ resp'.code = "VALIDATION_ERROR"
  /\ ret' = NoRet
  /\ db' = db
  /\ fts' = fts
  /\ issued' = issued

\* C8: an admitted store request, its body parsed, whose content is longer
\* than 10000 characters, or is missing, empty or not a string, is answered
\* 400 VALIDATION_ERROR; store() is not called and no store changes.
C8_BadContentRejected ==
  [][(Admitted("store") /\ resp'.body.kind # "invalid_json" /\ BadContent(resp'.body))
       => Rejected]_vars

\* the body null, which has no content, has been answered 500
C8_Witness ==
  /\ resp.route = "store"
  /\ resp.handler
  /\ resp.body.kind = "null"
  /\ resp.status = 500
  /\ resp.code = "INTERNAL_ERROR"

\* the statement of C8 for the bodies that are JSON objects
C8_ObjectBodies ==
  [][(Admitted("store") /\ resp'.body.kind = "object" /\ BadContent(resp'.body))
       => Rejected]_vars

\* content of 10001 characters has been rejected for a caller whose store
\* holds a record
C8_ObjectBodiesWitness ==
  /\ resp.route = "store"
  /\ resp.handler
  /\ resp.body.kind = "object"
  /\ resp.body.content.t = "string"
  /\ resp.body.content.length > MaxContentLength
  /\ resp.status = 400
  /\ db[resp.user.id] # {}

\* a type field that is present and is not one of the five types
BadType(body) ==
  /\ body.type.t # "undefined"
  /\ ~(body.type.t = "string" /\ body.type.s \in MemoryTypes)

\* C9: an admitted store request (a JSON object with valid content) whose
\* type is a value outside the five types is answered 400 VALIDATION_ERROR
\* and creates no record, and every record of every store has one of the
\* five types.
C9_BadTypeRejected ==
  [][/\ (Admitted("store") /\ resp'.body.kind = "object"
           /\ ~BadContent(resp'.body) /\ BadType(resp'.body)) =>
          /\ resp'.status = 400
          /\ resp'.code = "VALIDATION_ERROR"
          /\ db' = db
     /\ \A u \in Users : \A r \in db'[u] : r.type \in MemoryTypes]_vars

\* the type "" has been answered 201 and is the type of a stored record
C9_Witness ==
  /\ resp.route = "store"
  /\ resp.status = 201
  /\ BadType(resp.body)
  /\ \E r \in db[resp.user.id] : r.type \notin MemoryTypes

\* the caller a header authenticates
CallerOf(header) == ValidateApiKey(ExtractBearerToken(header))

\* the caller of the request is authenticated and its usage-log entries of
\* the last 60 seconds have reached the ceiling of its tier
OverCeiling(header) ==
  /\ ExtractBearerToken(header) # NoToken
  /\ CallerOf(header).valid
  /\ UsedSince(usage_log, CallerOf(header).user.id, clock - Window)
       >= RateLimit(CallerOf(header).user.tier)

RateLimited ==
  /\ resp'.status = 429
  /\ resp'.code = "RATE_LIMITED"
  /\ resp'.retry_after = 60
  /\ resp'.remaining = 0
  /\ ~resp'.handler
  /\ ret' = NoRet
  /\ db' = db

\* C10 as stated: a request of an authenticated caller whose usage-log
\* entries of the last 60 seconds have reached its tier's ceiling is answered
\* 429 RATE_LIMITED with Retry-After 60 and X-RateLimit-Remaining 0, and the
\* route handler is not invoked.
C10_AlwaysRateLimited ==
  [][(resp.route = "none" /\ resp'.route # "none" /\ OverCeiling(resp'.header))
       => RateLimited]_vars

\* C10: the same, for a request whose usage-count query did not fail.
C10_RateLimitedUnlessQueryFails ==
  [][(resp.route = "none" /\ resp'.route # "none" /\ OverCeiling(resp'.header)
        /\ ~resp'.quota_error) => RateLimited]_vars

\* a free-tier caller with 10 entries in its window has been answered 429
C10_Witness ==
  /\ resp.route # "none"
  /\ resp.status = 429
  /\ resp.user.tier = "free"
  /\ UsedSince(usage_log, resp.user.id, clock - Window) >= RateLimitFree

\* requests of user u that reached a route handler at a second in [from, to)
AdmittedIn(u, from, to) ==
  SumCopies(admitted, {e \in BagToSet(admitted) :
                         e.user_id = u /\ from <= e.timestamp /\ e.timestamp < to})

\* C11: in every window of 60 seconds the number of requests of one caller
\* that reached a route handler is at most the ceiling of the caller's tier,
\* however the caller's concurrent requests interleave.
C11_AdmittedWithinCeiling ==
  \A u \in Users : \A t \in 0 .. MaxTime :
     AdmittedIn(u, t, t + Window) <= RateLimit(TierOf(u))

\* two requests of one caller have both passed the quota check and neither
\* has written its usage entry
C11_Witness ==
  /\ \A p \in Procs : tx[p].op = "request" /\ tx[p].pc = "logUsage"
  /\ \A p, q \in Procs : tx[p].user = tx[q].user

\* the header is absent or is not "Bearer" followed by a non-empty token
NoBearer(header) ==
  \/ ~header.present
  \/ Len(header.parts) < 2
  \/ ToLowerCase(header.parts[1]) # "bearer"
  \/ header.parts[2] = ""

\* the header carries a token whose hash is the key_hash of no api_keys row
UnknownToken(header) ==
  /\ ~NoBearer(header)
  /\ \A k \in ApiKeys : k.key_hash # HashApiKey(header.parts[2])

Unauthorized ==
  /\ resp'.status = 401
  /\ resp'.code = "UNAUTHORIZED"
  /\ ~resp'.quota_checked
  /\ ~resp'.handler
  /\ usage_log' = usage_log
  /\ admitted' = admitted
  /\ ret' = NoRet
  /\ db' = db
  /\ fts' = fts
  /\ handles' = handles

\* C12 as stated: a request to a protected route with no Authorization
\* header, with a header that is not Bearer and a non-empty token, or with a
\* token whose hash matches no stored key, is answered 401 UNAUTHORIZED; no
\* quota check is made, no usage entry is logged, the handler is not invoked
\* and no memory store is opened.
C12_UnknownTokenUnauthorized ==
  [][(resp.route = "none" /\ resp'.route # "none"
        /\ (NoBearer(resp'.header) \/ UnknownToken(resp'.header))) => Unauthorized]_vars

\* C12: the same, for a token that is not the configured TEST_API_KEY.
C12_UnauthorizedUnlessTestKey ==
  [][(resp.route = "none" /\ resp'.route # "none"
        /\ (NoBearer(resp'.header)
              \/ (UnknownToken(resp'.header) /\ resp'.header.parts[2] # TestApiKey)))
       => Unauthorized]_vars

\* a token that matches no stored key has been answered 401 while the caller
\* behind the free key has usage entries
C12_Witness ==
  /\ resp.route # "none"
  /\ UnknownToken(resp.header)
  /\ resp.status = 401
  /\ usage_log # EmptyBag
\* the header authenticates a caller
Authenticated(header) == ~NoBearer(header) /\ CallerOf(header).valid

\* C13: when the usage-count query of checkQuota returns an error the check
\* reports the request as allowed whatever the caller's usage is: the request
\* of an authenticated caller goes on to logUsage, reaches the route handler
\* and is not answered 429.
C13_QueryErrorFailsOpen ==
  [][(resp.route = "none" /\ resp'.route # "none" /\ Authenticated(resp'.header)
        /\ resp'.quota_error) =>
       /\ CheckQuota(usage_log, CallerOf(resp'.header).user.id,
                     CallerOf(resp'.header).user.tier, clock, TRUE).allowed
       /\ resp'.handler
       /\ resp'.status # 429
       /\ resp'.user = CallerOf(resp'.header).user
       /\ usage_log' \in {usage_log, LogUsage(usage_log, resp'.user.id, clock)}
       /\ admitted' = Invoked(admitted, resp'.user.id, clock)]_vars

\* a caller over its ceiling whose count query failed has been handled: its
\* window now holds more entries than the ceiling
C13_Witness ==
  /\ resp.route # "none"
  /\ resp.quota_error
  /\ resp.handler
  /\ resp.status \in {200, 201}
  /\ UsedSince(usage_log, resp.user.id, clock - Window) > RateLimit(resp.user.tier)
\* C14: a store(), recall(), consolidate() or stats() performed for user A
\* leaves the records, the index and the stats of every other user B as they
\* were, and what it returns is read from A's own store.
C14_IsolatedPerUser ==
  [][(resp.route = "none" /\ resp'.route # "none" /\ resp'.handler) =>
       LET A == resp'.user.id IN
       /\ \A B \in Users \ {A} :
            /\ db'[B] = db[B]
            /\ fts'[B] = fts[B]
            /\ Stats(db'[B]) = Stats(db[B])
       /\ ret'.op = "recall" => \A i \in DOMAIN ret'.results : ret'.results[i] \in db[A]
       /\ ret'.op = "stats" => ret'.stats = Stats(db[A])
       /\ ret'.op = "consolidate" => ret'.stats.memories_before = Cardinality(db[A])
       /\ (ret'.op = "store" /\ ~ret'.threw) =>
            /\ ret'.id \in IdsOf(db'[A])
            /\ ret'.id \notin IdsOf(db[A])]_vars

\* a recall for "python" of a caller whose store is empty has returned
\* nothing while another user's store holds a record with that word
C14_Witness ==
  /\ resp.route = "recall"
  /\ resp.status = 200
  /\ ret.op = "recall"
  /\ resp.body.query = JStr("python", 6)
  /\ Len(ret.results) = 0
  /\ \E B \in Users \ {resp.user.id} : \E r \in db[B] : r.content = JStr("python", 6)
\* a recall body that fails validation: query missing or not a string, limit
\* present and not a number in 1..100, types present and not an array, or a
\* type outside the five
BadRecall(body) ==
  \/ body.query.t # "string"
  \/ body.limit.t # "undefined"
       /\ (body.limit.t # "number" \/ body.limit.n < 1 \/ body.limit.n > MaxLimit)
  \/ body.types.kind \in {"falsy", "other"}
  \/ body.types.kind = "array" /\ ~(body.types.list \subseteq MemoryTypes)

\* C15: an admitted recall request that fails validation is answered 400
\* before the memory service is invoked: recall() is not called, no record's
\* activation or last_accessed changes and no storage handle is opened.
C15_BadRecallRejected ==
  [][(Admitted("recall") /\ BadRecall(resp'.body)) =>
       /\ resp'.status = 400
       /\ ret' = NoRet
       /\ db' = db
       /\ handles' = handles]_vars

\* a recall whose types is a falsy value that is not an array has been
\* answered 200, and the record it returned has been touched
C15_Witness ==
  /\ resp.route = "recall"
  /\ resp.body.kind = "object"
  /\ resp.body.types.kind = "falsy"
  /\ resp.status = 200
  /\ ret.op = "recall"
  /\ \E i \in DOMAIN ret.results :
       \E r \in db[resp.user.id] : r.id = ret.results[i].id /\ r.last_accessed = clock
\* the identifiers of the rows a recall() returned
ReturnedIds(r) == {r.results[i].id : i \in DOMAIN r.results}

\* C16: recall() updates exactly the records it returns: each of them gets
\* last_accessed = now and activation = min(1.1 x its old activation, 1.0);
\* every other record of the store keeps its activation and last_accessed,
\* and no record is added or removed.
C16_RecallUpdatesReturnedOnly ==
  [][(ret.op = "none" /\ ret'.op = "recall") =>
       LET u == ret'.user IN
       /\ IdsOf(db'[u]) = IdsOf(db[u])
       /\ Cardinality(db'[u]) = Cardinality(db[u])
       /\ \A old \in db[u] : \E new \in db'[u] :
            /\ new.id = old.id
            /\ IF old.id \in ReturnedIds(ret')
                 THEN /\ new.last_accessed = clock
                      /\ new.activation = Min((old.activation * 110) \div 100, One)
                 ELSE /\ new.last_accessed = old.last_accessed
                      /\ new.activation = old.activation]_vars

\* a recall() with limit 1 has returned one of two records below 1.0 and
\* left out the other
C16_Witness ==
  /\ ret.op = "recall"
  /\ Len(ret.results) = 1
  /\ ret.results[1].activation < One
  /\ \E r, q \in db[ret.user] :
       /\ r.id \in ReturnedIds(ret)
       /\ r.last_accessed = clock
       /\ r.activation > ret.results[1].activation
       /\ q.id \notin ReturnedIds(ret)
       /\ q.last_accessed # clock
\* C17: one consolidate() pass multiplies by 0.95 the activation of every
\* record whose activation is > 0.01 and leaves the others' activation as it
\* is, then deletes exactly the records whose resulting activation is < 0.01:
\* a record above 0.01 whose decayed value is below 0.01 is deleted in that
\* pass, and a record at exactly 0.01 is neither decayed nor deleted.
C17_DecayThenDelete ==
  [][(ret.op = "none" /\ ret'.op = "consolidate") =>
       LET u == ret'.user IN
       /\ IdsOf(db'[u]) \subseteq IdsOf(db[u])
       /\ Cardinality(db'[u]) = Cardinality(IdsOf(db'[u]))
       /\ \A r \in db[u] :
            LET decayed == IF r.activation > One \div 100
                             THEN (r.activation * 95) \div 100
                             ELSE r.activation
            IN /\ IF decayed < One \div 100
                    THEN r.id \notin IdsOf(db'[u])
                    ELSE [r EXCEPT !.activation = decayed] \in db'[u]
               /\ r.activation = One \div 100 => r \in db'[u]]_vars

\* a pass has deleted a record that was above 0.01 before it and has left a
\* record at exactly 0.01 as it was
C17_Witness ==
  /\ ret.op = "consolidate"
  /\ ret.stats.forgotten = 1
  /\ \E r \in db[ret.user] : r.activation = ForgetThreshold /\ r.id = SeedId + 1
  /\ SeedId \notin IdsOf(db[ret.user])
RECURSIVE SumCounts(_, _)
SumCounts(counts, keys) ==
  IF keys = {} THEN 0
  ELSE LET k == CHOOSE x \in keys : TRUE
       IN counts[k] + SumCounts(counts, keys \ {k})

\* C18: in every state reached through the HTTP routes, the by_type of a
\* stats() response has exactly the five fixed types as keys, each mapped to
\* the number of stored records of that type, and the five counts sum to
\* total_memories.
C18_ByTypeFiveKeys ==
  ret.op = "stats" =>
    /\ DOMAIN ret.stats.by_type = MemoryTypes
    /\ \A t \in MemoryTypes :
         ret.stats.by_type[t] = Cardinality({r \in db[ret.user] : r.type = t})
    /\ SumCounts(ret.stats.by_type, MemoryTypes) = ret.stats.total_memories

\* stats() has answered a caller whose store route accepted the type "":
\* by_type has a sixth key and the five counts sum to less than the total
C18_Witness ==
  /\ resp.route = "stats"
  /\ resp.status = 200
  /\ ret.op = "stats"
  /\ DOMAIN ret.stats.by_type # MemoryTypes
  /\ SumCounts(ret.stats.by_type, MemoryTypes) < ret.stats.total_memories
\* the processes that are inside a memory-service operation
InOperation == {p \in Procs : tx[p].op \in {"getDb", "try"}}

\* C19: every memory-service operation opens its own storage handle and has
\* closed it when the operation returns or throws, on every exit path,
\* a failure during schema initialisation or during a statement included: the
\* open handles are those of the operations in progress, one each, and none
\* stays open between operations.
C19_HandlesClosed == handles = Cardinality(InOperation)

\* the schema initialisation of an operation has thrown: no operation is in
\* progress and a handle is open
C19_Witness ==
  /\ InOperation = {}
  /\ ret # NoRet
  /\ ret.threw
  /\ handles > 0
\* the records written since the consolidate() of process p started
StoredDuring(p) == issued \ tx[p].startIssued

\* C20: a record written by a store() that interleaves with a concurrent
\* consolidate() of the same user, before the decay statement, between decay
\* and delete, or after the delete, is never deleted by that consolidate();
\* when the consolidate() returns, no other one having run meanwhile, the
\* record is in the store with activation 1.0 or 0.95.
C20_NewRecordSurvives ==
  [][\A p \in Procs :
       /\ (tx[p].op = "consolidate" /\ tx[p].pc = "delete" /\ tx'[p].pc = "after") =>
            StoredDuring(p) \cap IdsOf(db[StepUser]) \subseteq IdsOf(db'[StepUser])
       /\ (tx[p].op = "consolidate" /\ tx[p].pc = "after" /\ tx'[p].pc = "return"
              /\ tx[p].solo /\ tx[p].startPasses = passes) =>
            \A id \in StoredDuring(p) :
               \E r \in db'[StepUser] :
                  /\ r.id = id
                  /\ r.activation \in {One, (One * 95) \div 100}]_vars

\* a consolidate() is about to return; a record written after it had
\* started and before its decay statement is in the store at 0.95
C20_Witness ==
  \E p \in Procs :
     /\ tx[p].op = "consolidate"
     /\ tx[p].pc = "after"
     /\ tx[p].solo
     /\ tx[p].startPasses = passes
     /\ \E r \in db[StepUser] :
          r.id \in StoredDuring(p) /\ r.activation = (One * 95) \div 100
\* C21: when store() calls of the same user commit between the before-count
\* and the after-count of a consolidate(), no other consolidate() running
\* meanwhile, its response has memories_after = memories_before - forgotten +
\* (number of those calls); memories_after = memories_before - forgotten
\* holds only when that number is 0.
C21_AfterCountsInterleavedStores ==
  [][\A p \in Procs :
       (tx[p].op = "consolidate" /\ tx[p].pc = "after" /\ tx'[p].pc = "return"
          /\ tx[p].solo /\ tx[p].startPasses = passes) =>
         LET st == tx'[p].stats
             n == Cardinality(StoredDuring(p))
         IN /\ st.memories_before = tx[p].beforeCount
            /\ st.forgotten = tx[p].forgotten
            /\ st.memories_after = st.memories_before - st.forgotten + n
            /\ (st.memories_after = st.memories_before - st.forgotten) <=> (n = 0)]_vars

\* a consolidate() that deleted a record is returning a response in which
\* memories_after counts a record stored while it ran
C21_Witness ==
  \E p \in Procs :
     /\ tx[p].op = "consolidate"
     /\ tx[p].pc = "return"
     /\ tx[p].solo
     /\ tx[p].startPasses = passes
     /\ StoredDuring(p) # {}
     /\ tx[p].stats.forgotten = 1
     /\ tx[p].stats.memories_after = tx[p].stats.memories_before
\* C22: when a recall() returns, every record of its result is in the store
\* with the boost of that recall applied (last_accessed is its now), also
\* when a consolidate() of the same user has run between the row selection
\* and the per-row updates.
C22_RecalledRecordsExist ==
  [][\A p \in Procs :
       (tx[p].op = "recall" /\ tx[p].next = Len(tx[p].rows) /\ tx'[p] = Idle) =>
         \A i \in DOMAIN tx[p].rows :
            \E r \in db'[StepUser] :
               /\ r.id = tx[p].rows[i].id
               /\ r.last_accessed = clock]_vars

\* a recall() has selected a record and has not updated it yet; a
\* consolidate() has deleted the record meanwhile
C22_Witness ==
  \E p \in Procs :
     /\ tx[p].op = "recall"
     /\ passes > 0
     /\ \E i \in tx[p].next .. Len(tx[p].rows) : tx[p].rows[i].id \notin IdsOf(db[StepUser])
\* C23: the activation and last_accessed of a recall() result are the
\* values read before that recall's own update, while the stored record
\* already holds the boosted activation and the new timestamp; after store
\* then recall the result shows activation 1.0 and no last_accessed.
C23_ResultsHoldValuesBeforeUpdate ==
  [][(ret.op = "none" /\ ret'.op = "recall") =>
       \A i \in DOMAIN ret'.results :
          \E old \in db[ret'.user], new \in db'[ret'.user] :
             /\ old.id = ret'.results[i].id
             /\ new.id = old.id
             /\ ret'.results[i].activation = old.activation
             /\ ret'.results[i].last_accessed = old.last_accessed
             /\ new.activation = Min((old.activation * 110) \div 100, One)
             /\ new.last_accessed = clock]_vars

\* a recall() has returned a fresh record at 1.0 and an aged record, both
\* without last_accessed; the store holds them touched, the aged one boosted
C23_Witness ==
  /\ ret.op = "recall"
  /\ \E i, j \in DOMAIN ret.results :
       /\ ret.results[i].activation = One
       /\ ret.results[i].last_accessed = NULL
       /\ ret.results[j].last_accessed = NULL
       /\ \E r, q \in db[ret.user] :
            /\ r.id = ret.results[i].id
            /\ r.last_accessed = clock
            /\ q.id = ret.results[j].id
            /\ q.last_accessed = clock
            /\ q.activation > ret.results[j].activation

\* a step in which recall() returns the record id
RecallReturns(id) ==
  ret.op = "none" /\ ret'.op = "recall" /\ id \in ReturnedIds(ret')

\* every step that does not return a record leaves its activation or lowers
\* it; a pass strictly lowers the activation of a record above 0.01 and
\* removes a record below 0.01
DecaysUnlessRecalled ==
  [][\A old \in db[StepUser] :
       ~RecallReturns(old.id) =>
         /\ \A new \in db'[StepUser] :
              new.id = old.id => new.activation <= old.activation
         /\ (ret.op = "none" /\ ret'.op = "consolidate") =>
              /\ old.activation > ForgetThreshold =>
                   \A new \in db'[StepUser] :
                     new.id = old.id => new.activation < old.activation
              /\ old.activation < ForgetThreshold =>
                   old.id \notin IdsOf(db'[StepUser])]_vars

\* C24 as the specification states it: a record that no recall() returns any
\* more is eventually deleted when consolidate() keeps being invoked: its
\* activation never increases, strictly decreases on every pass while above
\* 0.01, and from some point on the record is not in the store.
C24_UnrecalledEventuallyDeleted ==
  /\ DecaysUnlessRecalled
  /\ \A id \in IdsOf(DecaySeeds) :
       <>[][~RecallReturns(id)]_vars => <>[](id \notin IdsOf(db[StepUser]))

\* C24 as the code has it: a record that no recall() returns any more, when
\* consolidate() keeps being invoked, is eventually deleted or rests at an
\* activation of exactly 0.01, which the passes neither decay nor delete;
\* until then its activation never increases and strictly decreases on
\* every pass.
C24_UnrecalledDeletedOrAtThreshold ==
  /\ DecaysUnlessRecalled
  /\ \A id \in IdsOf(DecaySeeds) :
       <>[][~RecallReturns(id)]_vars =>
         <>[](\A r \in db[StepUser] : r.id = id => r.activation = ForgetThreshold)

\* the recalls are used up; the pass that just returned removed the record
\* the recalls had raised, and left the record at exactly 0.01 as it was
C24_Witness ==
  /\ ret.op = "consolidate"
  /\ ret.stats.memories_before = 2
  /\ ret.stats.forgotten = 1
  /\ recalls = MaxRecalls
  /\ SeedId \notin IdsOf(db[StepUser])
  /\ \E r \in db[StepUser] : r.activation = ForgetThreshold

\* the results the caller holds when it starts a pass
HeldResults == {tx[Rehearser].results[i] : i \in DOMAIN tx[Rehearser].results}

\* C25: a record that a recall() returned since the previous pass (and
\* before the first) is not deleted by the pass: its activation after the
\* pass is at least min(0.95, its activation before that recall), hence at
\* least min(0.95, its activation after the previous pass), and not below
\* 0.01.
C25_RehearsedRecordSurvives ==
  [][(tx[Rehearser].op = "held" /\ ret.op = "none" /\ ret'.op = "consolidate") =>
       \A h \in HeldResults :
         \E new \in db'[ret'.user] :
           /\ new.id = h.id
           /\ new.activation >= Min(Decay(One), h.activation)
           /\ new.activation >= ForgetThreshold]_vars

\* two passes, each after a recall that returned the record at exactly
\* 0.01, have left it in the store, above 0.01
C25_Witness ==
  /\ ret.op = "consolidate"
  /\ passes = 2
  /\ \E r \in db[ret.user] :
       /\ r.id = SeedId + 1
       /\ r.activation = Decay(Boost(Decay(Boost(ForgetThreshold))))
       /\ r.activation > ForgetThreshold

\* a request has just been answered 429 to caller u
AnsweredRateLimited(u) == resp.route # "none" /\ resp.status = 429 /\ resp.user.id = u

\* the request just answered, if it is caller u's, made more than 60 seconds
\* after t, and the only one of u's admitted after t, was admitted
AdmittedIfAfter(u, t) ==
  (/\ resp.route # "none"
   /\ CallerOf(resp.header).user.id = u
   /\ clock > t + Window
   /\ \A e \in BagToSet(admitted) :
        (e.user_id = u /\ e.timestamp > t) =>
          (e.timestamp = clock /\ resp.handler /\ CopiesIn(e, admitted) = 1))
  => (resp.status \notin {401, 429} /\ resp.handler)

\* C26: a request answered 401 or 429 writes no usage-log entry and invokes
\* no handler; and once a caller has been answered 429 at time t, every
\* request it makes more than 60 seconds after t, with no request of its own
\* admitted after t, is admitted (answered neither 429 nor 401).
C26_AdmittedAgainAfterWindow ==
  /\ [][(resp = NoResp /\ resp' # NoResp /\ resp'.status \in {401, 429}) =>
          (usage_log' = usage_log /\ admitted' = admitted)]_vars
  /\ \A u \in Users : \A t \in 0..(MaxTime - Window - 1) :
       [](AnsweredRateLimited(u) /\ clock = t => []AdmittedIfAfter(u, t))

\* caller u1, at its ceiling since second 0, is admitted at second 61 by the
\* second request; the first request wrote no entry
C26_Witness ==
  /\ resp.route # "none"
  /\ resp.status = 200
  /\ resp.user.id = "u1"
  /\ requests = 2
  /\ clock = Window + 1
  /\ CopiesIn([user_id |-> "u1", timestamp |-> 0], usage_log) = RateLimitFree
  /\ CopiesIn([user_id |-> "u1", timestamp |-> clock], usage_log) = 1
  /\ BagCardinality(usage_log) = BagCardinality(BusyLog) + 1

\* C27: every request that passes authentication and the quota check writes
\* exactly one usage-log entry for its caller, whatever the handler then
\* answers (400 and 500 included), and so counts toward the caller's ceiling.
C27_AdmittedRequestLogged ==
  [][(resp = NoResp /\ resp' # NoResp /\ resp'.status \notin {401, 429}) =>
       /\ resp'.handler
       /\ usage_log' = LogUsage(usage_log, resp'.user.id, clock)
       /\ UsedSince(usage_log', resp'.user.id, clock - Window)
            = UsedSince(usage_log, resp'.user.id, clock - Window) + 1]_vars

\* a request that the handler rejected with 400 or that ended in 500 has
\* been answered and has left no usage entry
C27_Witness ==
  /\ resp.route # "none"
  /\ resp.handler
  /\ resp.status \in {400, 500}
  /\ usage_log = EmptyBag
  /\ admitted # EmptyBag

\* C28: run() returns, whatever the LLM provider does: it makes one initial
\* call and at most maxToolIterations follow-up calls, executes the tool
\* calls of a response only while fewer than maxToolIterations rounds have
\* run, and returns the text of the last response, whose tool calls, if it
\* has any, are left unexecuted.
C28_RunTerminates ==
  /\ [][LET t == tx'[Agent] IN
        /\ t.llmCalls <= 1 + t.maxToolIterations
        /\ t.toolIterations <= t.maxToolIterations
        /\ t.toolIterations <= t.llmCalls
        /\ (t.pc \in {"while", "tool", "followup"} \/ (t.pc = "returned" /\ ~ret'.caught))
             => t.toolIterations = t.llmCalls - 1
        /\ t.pc = "tool" => t.toolIterations < t.maxToolIterations
        /\ (t.pc = "returned" /\ ~ret'.caught) =>
             /\ ret'.message = [said |-> "llm", call |-> t.llmCalls]
             /\ ret'.message = t.response.text
             /\ t.response.toolCalls # NULL => t.toolIterations = t.maxToolIterations]_vars
  /\ <>(tx[Agent].pc = "returned" /\ ret.op = "run")

\* a run with the default of 5 rounds has returned the text of the sixth
\* response, whose two tool calls were not executed
C28_Witness ==
  /\ tx[Agent].pc = "returned"
  /\ ~ret.caught
  /\ tx[Agent].maxToolIterations = DefaultToolIterations
  /\ tx[Agent].llmCalls = 1 + DefaultToolIterations
  /\ tx[Agent].response.toolCalls = MaxToolCalls
  /\ ret.message = [said |-> "llm", call |-> 1 + DefaultToolIterations]

\* C29: run() always resolves with an AgentOutput: on the success path
\* tools_used is the number of executeTool invocations of the run; when a
\* step throws, the output is the apology with memories_recalled = 0 and
\* tools_used = 0, and the tools already executed stay executed.
C29_RunNeverRejects ==
  [][LET t == tx'[Agent] IN
     /\ t.executed >= tx[Agent].executed
     /\ t.pc = "returned" =>
          /\ ret'.op = "run"
          /\ IF ret'.caught
               THEN /\ ret'.message = [said |-> "apology", call |-> 0]
                    /\ ret'.memories_recalled = 0
                    /\ ret'.tools_used = 0
             ELSE /\ ret'.tools_used = t.executed
                  /\ ret'.message = t.response.text]_vars

\* the LLM call after the first round of tools threw: the output says
\* tools_used = 0 while tools have been executed
C29_Witness ==
  /\ tx[Agent].pc = "returned"
  /\ ret.caught
  /\ ret.tools_used = 0
  /\ tx[Agent].toolIterations = 0
  /\ tx[Agent].llmCalls = 2
  /\ tx[Agent].executed > 1
====
